---- MODULE Spec2Model ----
(***************************************************************************)
(* A model of the score-hv innovation-statistics harvesters.               *)
(*                                                                         *)
(* Two generations of the harvester are modelled side by side:             *)
(*   generation 1: src/src/score_hv/innov_netcdf.py                        *)
(*                 (string cycle, fixed 'plevs' elevation variable)        *)
(*   generation 2: src/src/score_hv/harvesters/innov_netcdf.py             *)
(*                 (datetime cycle + 6 h, configurable elevation variable, *)
(*                  optional pandas output)                                *)
(* together with the entry point harvest() of                              *)
(* src/src/rnr_score_hv/harvester_base.py, the registries and the file     *)
(* checker src/src/rnr_score_hv/file_utils.py.                             *)
(*                                                                         *)
(* Conventions.                                                            *)
(*  - Python strings are TLA+ strings; str.replace, the regular-expression *)
(*    search of the file checker and strftime work character by character. *)
(*  - A timestamp is a whole number of hours counted from                  *)
(*    1988-01-01T00:00; the directive %Y%m%d%H renders that number in      *)
(*    decimal and strptime reads it back.                                  *)
(*  - A Python value whose type matters is a record [ty, s, v]: its type   *)
(*    name, its text when it is a str, its number when it is numeric.      *)
(*    Latitudes are whole numbers, carried as int or as float.             *)
(*  - A call that can raise returns [ok, exc, val]: exc is the name of the *)
(*    exception class that leaves the call when ok is FALSE.               *)
(***************************************************************************)
EXTENDS Integers, Sequences, FiniteSets, TLC

(***************************************************************************)
(* Bounds of the model.                                                    *)
(***************************************************************************)
\* longest stats list, regions mapping and metrics list of a configuration
MaxStats == 2
MaxRegions == 2
MaxMetrics == 2
\* most levels of a file's elevation array
MaxLevels == 2

(***************************************************************************)
(* Python values.                                                          *)
(***************************************************************************)
PyStr(s) == [ty |-> "str", s |-> s, v |-> 0]
PyInt(n) == [ty |-> "int", s |-> "", v |-> n]
PyFloat(n) == [ty |-> "float", s |-> "", v |-> n]
PyList == [ty |-> "list", s |-> "", v |-> 0]
PyDict == [ty |-> "dict", s |-> "", v |-> 0]
PyNone == [ty |-> "NoneType", s |-> "", v |-> 0]
PyDatetime(t) == [ty |-> "datetime", s |-> "", v |-> t]

IsNumber(x) == x.ty \in {"int", "float"}

Abs(n) == IF n < 0 THEN -n ELSE n

Ok(val) == [ok |-> TRUE, exc |-> "", val |-> val]
Raise(exc) == [ok |-> FALSE, exc |-> exc, val |-> <<>>]
\* an exception raised after the statements before it have had their
\* effect: val is what the assigned attribute or list holds by then
RaiseWith(exc, val) == [ok |-> FALSE, exc |-> exc, val |-> val]

(***************************************************************************)
(* Program constants.                                                      *)
(***************************************************************************)
VALID_STATS == <<"bias", "count", "rmsd">>

\* datetime(1988, 1, 1), the origin of the hour count
MIN_CYCLE_DATETIME == 0

PLEV_PRESURE_UNIT == "mb"

MIN_LONG == -180
MAX_LONG == 180

HRVSTR_NAME == "innov_stats_"

NAMED_TUPLES_LIST == "tuples_list"
PANDAS_DATAFRAME == "pandas_dataframe"

\* timedelta(hours=6)
SixHours == 6

SeqToSet(s) == {s[i] : i \in 1..Len(s)}

(***************************************************************************)
(* Region (both generations).                                              *)
(***************************************************************************)

\* The ring the second generation's Region.__post_init__ assembles:
\* (MIN_LONG,max),(MAX_LONG,max),(MAX_LONG,min),(MIN_LONG,min),(MIN_LONG,max),
\* kept as its vertex list <<longitude, latitude>>.
GridRing(min_lat, max_lat) ==
    << <<MIN_LONG, max_lat>>, <<MAX_LONG, max_lat>>, <<MAX_LONG, min_lat>>,
       <<MIN_LONG, min_lat>>, <<MIN_LONG, max_lat>> >>

\* field(default_factory=str, init=False): the empty string, no vertex
GridDefault == <<>>

\* A Region that takes any number as a bound: the variant C17 is tested
\* against.
RegionGen2_AnyNumber(name, min_lat, max_lat) ==
    IF name.ty # "str" THEN Raise("ValueError")
    ELSE IF ~IsNumber(min_lat) \/ ~IsNumber(max_lat) THEN Raise("ValueError")
    ELSE IF min_lat.v > max_lat.v THEN Raise("ValueError")
    ELSE IF Abs(min_lat.v) > 90 \/ Abs(max_lat.v) > 90 THEN Raise("ValueError")
    ELSE Ok([name |-> name, min_lat |-> min_lat, max_lat |-> max_lat,
             grid |-> GridDefault])

\* Second generation.  The ring is assembled in the local name `grid`, which
\* is dropped when __post_init__ returns: the field self.grid keeps its
\* default.
RegionGen2(name, min_lat, max_lat) ==
    IF name.ty # "str" THEN Raise("ValueError")
    ELSE IF min_lat.ty # "float" \/ max_lat.ty # "float" THEN Raise("ValueError")
    ELSE IF min_lat.v > max_lat.v THEN Raise("ValueError")
    ELSE IF max_lat.v < min_lat.v THEN Raise("ValueError")
    ELSE IF Abs(min_lat.v) > 90 \/ Abs(max_lat.v) > 90 THEN Raise("ValueError")
    ELSE LET grid == GridRing(min_lat.v, max_lat.v)
         IN  Ok([name |-> name, min_lat |-> min_lat, max_lat |-> max_lat,
                 grid |-> GridDefault])

\* First generation: no check of the name; a bound that is no number makes
\* the comparison (or abs) raise TypeError.
RegionGen1(name, min_lat, max_lat) ==
    IF ~IsNumber(min_lat) \/ ~IsNumber(max_lat) THEN Raise("TypeError")
    ELSE IF min_lat.v > max_lat.v THEN Raise("ValueError")
    ELSE IF max_lat.v < max_lat.v THEN Raise("ValueError")
    ELSE IF Abs(min_lat.v) > 90 \/ Abs(max_lat.v) > 90 THEN Raise("ValueError")
    ELSE Ok([name |-> name, min_lat |-> min_lat, max_lat |-> max_lat])

Region(gen, name, min_lat, max_lat) ==
    IF gen = 1 THEN RegionGen1(name, min_lat, max_lat)
    ELSE RegionGen2(name, min_lat, max_lat)

\* DEFAULT_REGIONS of each generation, built at import by the constructor
DefaultRegionSpecs ==
    << <<"equatorial", -5, 5>>, <<"global", -90, 90>>, <<"north_hemis", 20, 60>>,
       <<"tropics", -20, 20>>, <<"south_hemis", -60, -20>> >>

DEFAULT_REGIONS_GEN1 ==
    [i \in 1..Len(DefaultRegionSpecs) |->
        RegionGen1(PyStr(DefaultRegionSpecs[i][1]), PyInt(DefaultRegionSpecs[i][2]),
                   PyInt(DefaultRegionSpecs[i][3])).val]

DEFAULT_REGIONS_GEN2 ==
    [i \in 1..Len(DefaultRegionSpecs) |->
        RegionGen2(PyStr(DefaultRegionSpecs[i][1]), PyFloat(DefaultRegionSpecs[i][2]),
                   PyFloat(DefaultRegionSpecs[i][3])).val]

(***************************************************************************)
(* Strings: str.replace, strftime, strptime, the checker's character set.  *)
(***************************************************************************)
RECURSIVE Replace(_, _, _)
\* str.replace(old, new): every non-overlapping occurrence, left to right
Replace(s, old, new) ==
    IF Len(s) < Len(old) THEN s
    ELSE IF SubSeq(s, 1, Len(old)) = old
         THEN new \o Replace(SubSeq(s, Len(old) + 1, Len(s)), old, new)
         ELSE SubSeq(s, 1, 1) \o Replace(SubSeq(s, 2, Len(s)), old, new)

\* the one date directive the model renders
CycleDirective == "%Y%m%d%H"

TimeText(t) == ToString(t)

\* datetime.strftime(t, fmt)
Strftime(t, fmt) == Replace(fmt, CycleDirective, TimeText(t))

\* the timestamps a cycle string can denote
Times == -24..96

\* datetime.strptime(cycle, fmt): ValueError when the text does not match
Strptime(cycle, fmt) ==
    IF fmt = CycleDirective /\ \E t \in Times : TimeText(t) = cycle
    THEN Ok(CHOOSE t \in Times : TimeText(t) = cycle)
    ELSE Raise("ValueError")

\* [A-Za-z0-9\._\-\/]
AllowedChars ==
    {"A","B","C","D","E","F","G","H","I","J","K","L","M","N","O","P","Q","R","S",
     "T","U","V","W","X","Y","Z",
     "a","b","c","d","e","f","g","h","i","j","k","l","m","n","o","p","q","r","s",
     "t","u","v","w","x","y","z",
     "0","1","2","3","4","5","6","7","8","9",
     ".", "_", "-", "/"}

\* re.search(r'[^A-Za-z0-9\._\-\/]', filepath) is not None
HasInvalidChar(filepath) ==
    \E i \in 1..Len(filepath) : SubSeq(filepath, i, i) \notin AllowedChars

(***************************************************************************)
(* The file checker.  A file system maps each existing path to             *)
(* [is_file, st_size, readable, netcdf, content].                          *)
(***************************************************************************)
\* A checker that does not ask os.access: the variant C3 is tested against.
is_valid_readable_file_NoAccess(files, filepath) ==
    IF HasInvalidChar(filepath) THEN "invalid characters"
    ELSE IF filepath \notin DOMAIN files \/ ~files[filepath].is_file
         THEN "does not exist"
    ELSE IF files[filepath].st_size = 0 THEN "empty"
    ELSE ""

\* A checker that does not look at st_size: the variant C14 is tested
\* against.
is_valid_readable_file_NoSize(files, filepath) ==
    IF HasInvalidChar(filepath) THEN "invalid characters"
    ELSE IF filepath \notin DOMAIN files \/ ~files[filepath].is_file
         THEN "does not exist"
    ELSE IF ~files[filepath].readable THEN "insufficient permissions"
    ELSE ""

\* why is_valid_readable_file raises ValueError on this path, "" when it
\* returns
is_valid_readable_file(files, filepath) ==
    IF HasInvalidChar(filepath) THEN "invalid characters"
    ELSE IF filepath \notin DOMAIN files \/ ~files[filepath].is_file
         THEN "does not exist"
    ELSE IF files[filepath].st_size = 0 THEN "empty"
    ELSE IF ~files[filepath].readable THEN "insufficient permissions"
    ELSE ""

(***************************************************************************)
(* Python dictionaries are functions whose domain is the set of keys.      *)
(***************************************************************************)
HasKey(d, k) == k \in DOMAIN d

DictSet(d, k, val) == [x \in DOMAIN d \cup {k} |-> IF x = k THEN val ELSE d[x]]
DictDel(d, k) == [x \in DOMAIN d \ {k} |-> d[x]]

(***************************************************************************)
(* MetricMeta (both generations).  The result carries, beside the object,  *)
(* the paths handed to the file checker.                                   *)
(***************************************************************************)
MetaOk(val, checked) == [ok |-> TRUE, exc |-> "", val |-> val, checked |-> checked]
MetaRaise(exc, checked) == [ok |-> FALSE, exc |-> exc, val |-> <<>>, checked |-> checked]
MetaRaiseWith(exc, val, checked) ==
    [ok |-> FALSE, exc |-> exc, val |-> val, checked |-> checked]

\* Second generation, lines 128-137: the file name the object resolves to
FilenameGen2(name, file_meta) ==
    LET filename_cycle_time == file_meta["cycletime"].v + SixHours
        filepath == Strftime(file_meta["cycletime"].v, file_meta["filepath_format_str"])
        filename == filepath \o Strftime(filename_cycle_time,
                                         file_meta["filename_format_str"])
    IN  Replace(filename, "metric", name)

\* Second generation.  Both `raise ... from err` statements name `err`
\* before it is bound, so what leaves them is an UnboundLocalError; like
\* every other exception of the body it is caught and re-raised as
\* ValueError.
MetricMetaGen2(name, file_meta, files, max_cycle) ==
    IF ~HasKey(file_meta, "cycletime") \/ file_meta["cycletime"].ty # "datetime"
    THEN MetaRaise("ValueError", <<>>)
    ELSE IF file_meta["cycletime"].v > max_cycle
            \/ file_meta["cycletime"].v < MIN_CYCLE_DATETIME
    THEN MetaRaise("ValueError", <<>>)
    ELSE IF ~HasKey(file_meta, "filepath_format_str")
            \/ ~HasKey(file_meta, "filename_format_str")
    THEN MetaRaise("ValueError", <<>>)
    ELSE LET filename == FilenameGen2(name, file_meta)
         IN  IF is_valid_readable_file(files, filename) # ""
             THEN MetaRaise("ValueError", <<filename>>)
             ELSE MetaOk([name |-> name, file_meta |-> file_meta,
                          filepath |-> Strftime(file_meta["cycletime"].v,
                                                file_meta["filepath_format_str"]),
                          filename |-> filename,
                          cycletime |-> file_meta["cycletime"].v],
                         <<filename>>)

\* First generation, lines 94-99
FilenameGen1(name, file_meta, cycletime) ==
    LET new_fn == Replace(file_meta["filename_str"], "metric", name)
    IN  file_meta["filepath"] \o "/" \o Strftime(cycletime, new_fn)

\* First generation: the cycle string is parsed; the timestamp is not
\* compared with any limit.
MetricMetaGen1(name, file_meta, files) ==
    IF ~HasKey(file_meta, "cycle") \/ ~HasKey(file_meta, "cycletime_str")
    THEN MetaRaise("ValueError", <<>>)
    ELSE LET parsed == Strptime(file_meta["cycle"], file_meta["cycletime_str"])
         IN  IF ~parsed.ok THEN MetaRaise("ValueError", <<>>)
             ELSE IF ~HasKey(file_meta, "filename_str") \/ ~HasKey(file_meta, "filepath")
             THEN MetaRaise("ValueError", <<>>)
             ELSE LET filename == FilenameGen1(name, file_meta, parsed.val)
                  IN  IF is_valid_readable_file(files, filename) # ""
                      THEN MetaRaise("ValueError", <<filename>>)
                      ELSE MetaOk([name |-> name, file_meta |-> file_meta,
                                   filename |-> filename, cycletime |-> parsed.val],
                                  <<filename>>)

MetricMeta(gen, name, file_meta, files, max_cycle) ==
    IF gen = 1 THEN MetricMetaGen1(name, file_meta, files)
    ELSE MetricMetaGen2(name, file_meta, files, max_cycle)

(***************************************************************************)
(* HarvestConfig: the validation phases (both generations).                *)
(***************************************************************************)

\* A set_stats that only stores the list and leaves its validation to a
\* later phase: the variant C18 is tested against.
set_stats_Unchecked(config_data) ==
    IF ~HasKey(config_data, "stats") THEN RaiseWith("KeyError", PyNone)
    ELSE Ok(config_data["stats"])

\* A set_stats that validates the first entry only: the variant C6 is
\* tested against.
set_stats_FirstOnly(config_data) ==
    IF ~HasKey(config_data, "stats") THEN RaiseWith("KeyError", PyNone)
    ELSE IF Len(config_data["stats"]) > 0
            /\ config_data["stats"][1] \notin SeqToSet(VALID_STATS)
         THEN RaiseWith("KeyError", config_data["stats"])
         ELSE Ok(config_data["stats"])

\* set_stats: self.stats is assigned what config_data.get('stats') gives
\* before anything is validated, so it holds that value (None for a
\* missing key) when the exception leaves.  A missing key makes the loop
\* iterate None (TypeError); that and the KeyError of an unknown entry are
\* both re-raised as KeyError.
set_stats(config_data) ==
    IF ~HasKey(config_data, "stats") THEN RaiseWith("KeyError", PyNone)
    ELSE IF \E i \in 1..Len(config_data["stats"]) :
                config_data["stats"][i] \notin SeqToSet(VALID_STATS)
         THEN RaiseWith("KeyError", config_data["stats"])
         ELSE Ok(config_data["stats"])

\* float(x) of set_regions
ToFloat(x) == IF IsNumber(x) THEN Ok(PyFloat(x.v)) ELSE Raise("TypeError")

RECURSIVE BuildRegions(_, _, _, _)
\* the loop of set_regions over regions.items(), appending to the list
\* acc; the regions appended before an entry raises stay in the list
BuildRegions(gen, entries, i, acc) ==
    IF i > Len(entries) THEN Ok(acc)
    ELSE LET lat_min == ToFloat(entries[i].lat_min)
             lat_max == ToFloat(entries[i].lat_max)
         IN  IF ~lat_min.ok \/ ~lat_max.ok THEN RaiseWith("ValueError", acc)
             ELSE LET r == Region(gen, entries[i].name, lat_min.val, lat_max.val)
                  IN  IF ~r.ok THEN RaiseWith("ValueError", acc)
                      ELSE BuildRegions(gen, entries, i + 1, Append(acc, r.val))

\* A set_regions whose self.regions starts as the module's DEFAULT_REGIONS
\* list and appends to it in place: the variant C7 is tested against.
set_regions_SharedAppend(gen, config_data, shared) ==
    IF HasKey(config_data, "regions")
    THEN LET built == BuildRegions(gen, config_data["regions"], 1, shared)
         IN  [ok |-> built.ok, exc |-> built.exc, val |-> built.val,
              shared |-> built.val]
    ELSE [ok |-> TRUE, exc |-> "", val |-> shared, shared |-> shared]

\* set_regions.  self.regions starts as a fresh empty list; with the key
\* absent it is rebound to the module's DEFAULT_REGIONS list.  The result
\* carries the configuration's list (val) and the module's list afterwards
\* (shared).
set_regions(gen, config_data, shared) ==
    IF HasKey(config_data, "regions")
    THEN LET built == BuildRegions(gen, config_data["regions"], 1, <<>>)
         IN  [ok |-> built.ok, exc |-> built.exc, val |-> built.val, shared |-> shared]
    ELSE [ok |-> TRUE, exc |-> "", val |-> shared, shared |-> shared]

\* config_data.get('file_meta'); an absent block behaves as one without keys
FileMetaOf(config_data) ==
    IF HasKey(config_data, "file_meta") THEN config_data["file_meta"]
    ELSE [k \in {} |-> ""]

RECURSIVE BuildMetricsMeta(_, _, _, _, _, _, _, _)
\* the loop of set_metrics_meta; any exception of MetricMeta is re-raised
\* as ValueError, with the objects appended before it still in the list
BuildMetricsMeta(gen, metrics, file_meta, files, max_cycle, i, acc, checked) ==
    IF i > Len(metrics) THEN MetaOk(acc, checked)
    ELSE LET m == MetricMeta(gen, metrics[i], file_meta, files, max_cycle)
         IN  IF ~m.ok THEN MetaRaiseWith("ValueError", acc, checked \o m.checked)
             ELSE BuildMetricsMeta(gen, metrics, file_meta, files, max_cycle, i + 1,
                                   Append(acc, m.val), checked \o m.checked)

\* set_metrics_meta.  dict.get never raises, so a missing 'metrics' key
\* reaches the for loop as None: TypeError, outside every try block.
set_metrics_meta(gen, config_data, files, max_cycle) ==
    IF ~HasKey(config_data, "metrics") THEN MetaRaise("TypeError", <<>>)
    ELSE BuildMetricsMeta(gen, config_data["metrics"], FileMetaOf(config_data),
                          files, max_cycle, 1, <<>>, <<>>)

\* set_elevation_unit (second generation)
set_elevation_unit(config_data) ==
    IF HasKey(config_data, "elevation_unit") THEN PyStr(config_data["elevation_unit"])
    ELSE PyNone

\* A set_output_format whose default is the data frame: the variant C15 is
\* tested against.
set_output_format_DefaultFrame(config_data) ==
    IF HasKey(config_data, "output_format") THEN config_data["output_format"]
    ELSE PANDAS_DATAFRAME

\* set_output_format (second generation)
set_output_format(config_data) ==
    IF HasKey(config_data, "output_format") THEN config_data["output_format"]
    ELSE NAMED_TUPLES_LIST

(***************************************************************************)
(* get_data: the body of the try block for one opened file.                *)
(***************************************************************************)
\* str(x) inside an f-string
PyText(x) == IF x.ty = "str" THEN x.s ELSE IF IsNumber(x) THEN ToString(x.v) ELSE x.ty

\* nc_varname = f'{stat}_{region.name}'
NcVarname(stat, region) == stat \o "_" \o PyText(region.name)

\* A HarvestedData stamped with the cycle time itself, without the six
\* hours: the variant C2 is tested against.
ItemGen2_NoOffset(metric, region, stat, ev_units, elevation, value) ==
    [name |-> HRVSTR_NAME \o metric.name \o "_" \o stat,
     cycletime |-> metric.cycletime,
     region_name |-> region.name,
     region_bounds |-> region.grid,
     elevation |-> elevation,
     elevation_units |-> ev_units,
     metric |-> metric.name,
     stat |-> stat,
     value |-> value]

\* HarvestedData of the second generation
ItemGen2(metric, region, stat, ev_units, elevation, value) ==
    [name |-> HRVSTR_NAME \o metric.name \o "_" \o stat,
     cycletime |-> metric.cycletime + SixHours,
     region_name |-> region.name,
     region_bounds |-> region.grid,
     elevation |-> elevation,
     elevation_units |-> ev_units,
     metric |-> metric.name,
     stat |-> stat,
     value |-> value]

\* HarvestedData of the first generation
ItemGen1(metric, region, stat, elevation, value) ==
    [cycletime |-> metric.cycletime,
     region_name |-> region.name,
     region_min_lat |-> region.min_lat,
     region_max_lat |-> region.max_lat,
     elevation |-> elevation,
     elevation_units |-> PLEV_PRESURE_UNIT,
     metric |-> metric.name,
     stat |-> stat,
     value |-> value]

Item(gen, metric, region, stat, ev_units, elevation, value) ==
    IF gen = 1 THEN ItemGen1(metric, region, stat, elevation, value)
    ELSE ItemGen2(metric, region, stat, ev_units, elevation, value)

RECURSIVE LevelLoop(_, _, _, _, _, _, _, _, _)
\* for idx in range(len(nc_vardata)): elevations[idx] raises IndexError
\* once idx passes the end of the elevation array
LevelLoop(gen, metric, region, stat, ev_units, elevations, nc_vardata, idx, acc) ==
    IF idx > Len(nc_vardata) THEN Ok(acc)
    ELSE IF idx > Len(elevations) THEN RaiseWith("IndexError", acc)
    ELSE LevelLoop(gen, metric, region, stat, ev_units, elevations, nc_vardata, idx + 1,
                   Append(acc, Item(gen, metric, region, stat, ev_units,
                                    elevations[idx], nc_vardata[idx])))

RECURSIVE StatLoop(_, _, _, _, _, _, _, _, _)
\* for stat in stats: a variable the file lacks raises KeyError
StatLoop(gen, metric, region, stats_, ev_units, elevations, variables, j, acc) ==
    IF j > Len(stats_) THEN Ok(acc)
    ELSE LET nc_varname == NcVarname(stats_[j], region)
         IN  IF nc_varname \notin DOMAIN variables THEN RaiseWith("KeyError", acc)
             ELSE LET rows == LevelLoop(gen, metric, region, stats_[j], ev_units,
                                        elevations, variables[nc_varname], 1, acc)
                  IN  IF ~rows.ok THEN rows
                      ELSE StatLoop(gen, metric, region, stats_, ev_units, elevations,
                                    variables, j + 1, rows.val)

RECURSIVE RegionLoop(_, _, _, _, _, _, _, _, _)
\* for region in regions
RegionLoop(gen, metric, regions_, stats_, ev_units, elevations, variables, i, acc) ==
    IF i > Len(regions_) THEN Ok(acc)
    ELSE LET rows == StatLoop(gen, metric, regions_[i], stats_, ev_units, elevations,
                              variables, 1, acc)
         IN  IF ~rows.ok THEN rows
             ELSE RegionLoop(gen, metric, regions_, stats_, ev_units, elevations,
                             variables, i + 1, rows.val)

\* the name of the elevation variable: 'plevs' in the first generation,
\* the configured elevation unit in the second
ElevationKey(gen, ev_units) == IF gen = 1 THEN PyStr("plevs") ELSE ev_units

\* The try block of get_data for one metric: harvested_data with the
\* records appended to it, and the exception if one was raised inside the
\* block (the records appended before it stay in the list).
ParseFile(gen, metric, regions_, stats_, ev_units, variables, harvested) ==
    LET key == ElevationKey(gen, ev_units)
    IN  IF key.ty # "str" \/ key.s \notin DOMAIN variables
        THEN RaiseWith("KeyError", harvested)
        ELSE RegionLoop(gen, metric, regions_, stats_, ev_units, variables[key.s],
                        variables, 1, harvested)

\* HarvestedData._fields of the second generation
HarvestedDataFields ==
    <<"name", "cycletime", "region_name", "region_bounds", "elevation",
      "elevation_units", "metric", "stat", "value">>

\* get_data_pandas_df: one row per tuple, one column per field
get_data_pandas_df(data) ==
    [kind |-> "DataFrame", columns |-> HarvestedDataFields, rows |-> data]

\* the plain list of named tuples
TuplesList(data) == [kind |-> "list", columns |-> <<>>, rows |-> data]

(***************************************************************************)
(* The registries and the inputs of a harvest.                             *)
(***************************************************************************)
\* harvester_registry of each generation: the registered names
harvester_registry(gen) ==
    IF gen = 1 THEN {"innov_temperature_netcdf"} ELSE {"innov_stats_netcdf"}

\* metric names and statistic names a configuration may list
MetricUniverse == {"temperature", "uvwind"}
StatUniverse == {"bias", "rmsd", "bogus"}

\* all lists over S no longer than n
SeqsUpTo(S, n) == UNION {[1..k -> S] : k \in 0..n}

\* entries a regions mapping may hold: a name and its two bounds
RegionEntry(name, lo, hi) == [name |-> name, lat_min |-> lo, lat_max |-> hi]

RegionEntries ==
    {RegionEntry(PyStr("global"), PyFloat(-90), PyFloat(90)),
     RegionEntry(PyStr("tropics"), PyFloat(-20), PyFloat(20)),
     RegionEntry(PyStr("tropics"), PyInt(20), PyInt(-20)),
     RegionEntry(PyStr("tropics"), PyFloat(-20), PyFloat(91)),
     RegionEntry(PyInt(5), PyFloat(-20), PyFloat(20))}

\* regions mappings: keys are unique, order is insertion order
RegionMappings ==
    {m \in SeqsUpTo(RegionEntries, MaxRegions) :
        \A i, j \in 1..Len(m) : i # j => m[i].name # m[j].name}

\* the region names a data file has statistics for
FileRegionNames ==
    {DefaultRegionSpecs[i][1] : i \in 1..Len(DefaultRegionSpecs)} \cup {"5"}

\* the variables '{stat}_{region}' of a well-formed file, in a fixed order
FileStatVars ==
    {VALID_STATS[i] \o "_" \o r : i \in 1..Len(VALID_STATS), r \in FileRegionNames}

\* the variables a malformed file may lack or hold at another length
OddVars == {"bias_global", "rmsd_tropics"}

\* contents: the i-th elevation, and the i-th value of a variable; the
\* values differ from metric to metric, variable to variable, level to level
ElevationAt(i) == 1000 - 150 * (i - 1)

MetricCode(name) ==
    IF name = "temperature" THEN 1 ELSE IF name = "uvwind" THEN 2 ELSE 3

\* a number for each variable '{stat}_{region}' of a file
VarCodes ==
    LET RegionCode(r) == IF r = "5" THEN 6
                         ELSE CHOOSE i \in 1..Len(DefaultRegionSpecs) :
                                  DefaultRegionSpecs[i][1] = r
        pairs == {<<i, r>> : i \in 1..Len(VALID_STATS), r \in FileRegionNames}
    IN  [v \in FileStatVars |->
            LET p == CHOOSE q \in pairs : VALID_STATS[q[1]] \o "_" \o q[2] = v
            IN  10 * p[1] + RegionCode(p[2])]

VarCode(var) == VarCodes[var]

DataAt(name, var, i) == 1000 * MetricCode(name) + 10 * VarCode(var) + i

\* kinds of file behind a metric's path
FileKind(k, levels, var) == [k |-> k, levels |-> levels, var |-> var]

FileKinds ==
    {FileKind("good", n, "") : n \in 0..MaxLevels}
    \cup {FileKind(k, MaxLevels, "") :
             k \in {"missing", "directory", "empty", "unreadable", "not_netcdf",
                    "no_elevation"}}
    \cup {FileKind(k, MaxLevels, v) : k \in {"no_var", "long_var", "short_var"},
                                     v \in OddVars}

\* the variables of a file of the given kind
VariablesOf(name, kind) ==
    LET n == kind.levels
        len(v) == IF v # kind.var THEN n
                  ELSE IF kind.k = "long_var" THEN n + 1
                  ELSE IF kind.k = "short_var" THEN n - 1
                  ELSE n
        names == (FileStatVars \cup {"plevs"})
                 \ (IF kind.k = "no_elevation" THEN {"plevs"}
                    ELSE IF kind.k = "no_var" THEN {kind.var} ELSE {})
    IN  [v \in names |->
            IF v = "plevs" THEN [i \in 1..n |-> ElevationAt(i)]
            ELSE [i \in 1..len(v) |-> DataAt(name, v, i)]]

\* the file record of the given kind (a missing file has none); its
\* content is kept as the metric name and the kind that determine it
FileOf(name, kind) ==
    [is_file |-> kind.k # "directory",
     st_size |-> IF kind.k = "empty" THEN 0 ELSE 4096,
     readable |-> kind.k # "unreadable",
     netcdf |-> kind.k \notin {"directory", "empty", "not_netcdf"},
     content |-> [name |-> name, kind |-> kind]]

\* ncfile.variables of an opened file
Variables(file) == VariablesOf(file.content.name, file.content.kind)

\* the first generation's file_meta and the second generation's
BaseFileMeta(gen) ==
    IF gen = 1
    THEN [filepath |-> "data", cycle |-> "24", cycletime_str |-> CycleDirective,
          filename_str |-> "innov_stats.metric.%Y%m%d%H.nc"]
    ELSE [filepath_format_str |-> "data/",
          filename_format_str |-> "innov_stats.metric.%Y%m%d%H.nc",
          cycletime |-> PyDatetime(24)]

BaseRegions ==
    << RegionEntry(PyStr("global"), PyFloat(-90), PyFloat(90)),
       RegionEntry(PyStr("tropics"), PyFloat(-20), PyFloat(20)) >>

\* The well-formed configuration each input departs from: the keys the
\* HarvestConfig of its generation reads, each with a valid value.
BaseConfig(gen) ==
    IF gen = 1
    THEN [harvester_name |-> "innov_temperature_netcdf",
          file_meta |-> BaseFileMeta(1),
          stats |-> <<"bias", "rmsd">>,
          metrics |-> <<"temperature", "uvwind">>,
          regions |-> BaseRegions]
    ELSE [harvester_name |-> "innov_stats_netcdf",
          file_meta |-> BaseFileMeta(2),
          stats |-> <<"bias", "rmsd">>,
          metrics |-> <<"temperature", "uvwind">>,
          regions |-> BaseRegions,
          elevation_unit |-> "plevs"]

\* An input of harvest: the generation called, the time elapsed since the
\* module was imported, the configuration mapping, and the kind of file
\* behind the path of each metric name.
BaseWorld(gen) ==
    [gen |-> gen, delay |-> 0, cfg |-> BaseConfig(gen),
     kinds |-> [n \in MetricUniverse |-> FileKind("good", MaxLevels, "")]]

\* cycle times a configuration may name, as hours
CycleTimes == {-6, 0, 24, 48, 54, 66}

\* directories a configuration may name
Directories(gen) ==
    IF gen = 1 THEN {"data", "data dir", "metric"}
    ELSE {"data/", "data dir/", "metric/"}

WithCfg(w, k, val) == [w EXCEPT !.cfg = DictSet(w.cfg, k, val)]
WithoutCfg(w, k) == [w EXCEPT !.cfg = DictDel(w.cfg, k)]
WithMeta(w, k, val) ==
    [w EXCEPT !.cfg = DictSet(w.cfg, "file_meta", DictSet(w.cfg["file_meta"], k, val))]

\* every input that differs from w in one place
OneChange(w) ==
    {WithCfg(w, "harvester_name", n) :
        n \in {"does_not_exist", "innov_stats_netcdf", "innov_temperature_netcdf"}}
    \cup {WithCfg(w, "stats", x) : x \in SeqsUpTo(StatUniverse, MaxStats)}
    \cup {WithCfg(w, "regions", x) : x \in RegionMappings}
    \cup {WithCfg(w, "metrics", x) : x \in SeqsUpTo(MetricUniverse, MaxMetrics)}
    \cup {WithoutCfg(w, k) :
             k \in {"harvester_name", "stats", "regions", "metrics", "file_meta",
                    "elevation_unit"}}
    \cup (IF w.gen = 1 THEN {} ELSE
            {WithCfg(w, "elevation_unit", "depths")}
            \cup {WithCfg(w, "output_format", f) :
                     f \in {NAMED_TUPLES_LIST, PANDAS_DATAFRAME, "table"}})
    \cup (IF ~HasKey(w.cfg, "file_meta") THEN {}
          ELSE IF w.gen = 1
          THEN {WithMeta(w, "cycle", TimeText(t)) : t \in CycleTimes}
               \cup {WithMeta(w, "cycle", "bogus")}
               \cup {WithMeta(w, "filepath", d) : d \in Directories(1)}
          ELSE {WithMeta(w, "cycletime", PyDatetime(t)) : t \in CycleTimes}
               \cup {WithMeta(w, "cycletime", PyStr("24"))}
               \cup {WithMeta(w, "filepath_format_str", d) : d \in Directories(2)})
    \cup {[w EXCEPT !.delay = 12]}
    \cup {[w EXCEPT !.kinds[n] = k] : n \in MetricUniverse, k \in FileKinds}

\* the inputs checked: the two well-formed ones and every input at most two
\* changes away from one of them
Worlds ==
    LET W0 == {BaseWorld(1), BaseWorld(2)}
        W1 == W0 \cup UNION {OneChange(w) : w \in W0}
    IN  W1 \cup UNION {OneChange(w) : w \in W1}

\* whether the configuration's file_meta determines a file name
PathDefined(gen, file_meta) ==
    IF gen = 1
    THEN /\ \A k \in {"filepath", "cycle", "cycletime_str", "filename_str"} :
               HasKey(file_meta, k)
         /\ Strptime(file_meta["cycle"], file_meta["cycletime_str"]).ok
    ELSE /\ \A k \in {"filepath_format_str", "filename_format_str", "cycletime"} :
               HasKey(file_meta, k)
         /\ file_meta["cycletime"].ty = "datetime"

\* the file name of a metric under a file_meta, as the generation builds it
Filename(gen, name, file_meta) ==
    IF gen = 1
    THEN FilenameGen1(name, file_meta,
                      Strptime(file_meta["cycle"], file_meta["cycletime_str"]).val)
    ELSE FilenameGen2(name, file_meta)

\* the file system of an input: behind the file name of each metric name
\* lies the file of the kind the input gives it
FilesOf(w) ==
    LET fm == FileMetaOf(w.cfg)
        present == IF PathDefined(w.gen, fm)
                   THEN {n \in DOMAIN w.kinds : w.kinds[n].k # "missing"}
                   ELSE {}
        paths == {Filename(w.gen, n, fm) : n \in present}
    IN  [p \in paths |->
            LET n == CHOOSE x \in present : Filename(w.gen, x, fm) = p
            IN  FileOf(n, w.kinds[n])]

(***************************************************************************)
(* The state.                                                              *)
(***************************************************************************)
VARIABLES
    pc,                  \* where the running harvest stands
    gen,                 \* the generation whose harvest is running
    now,                 \* the current time
    MAX_CYCLE_DATETIME,  \* datetime.utcnow() taken when the module was imported
    DEFAULT_REGIONS,     \* the module-level default list of each generation
    files,               \* the file system
    harvest_dict,        \* the configuration mapping handed to harvest
    config_calls,        \* calls of the registered config_handler so far
    stats,               \* HarvestConfig.stats
    regions,             \* HarvestConfig.regions
    metrics_meta,        \* HarvestConfig.metrics_meta
    elevation_unit,      \* HarvestConfig.elevation_unit
    output_format,       \* HarvestConfig.output_format
    checked,             \* paths handed to is_valid_readable_file, in order
    midx,                \* position of get_data's loop over the metrics
    open_files,          \* positions of the metrics whose Dataset is open
    opened,              \* file names opened by get_data, in order
    harvested_data,      \* get_data's list of records
    result,              \* what harvest returned
    error,               \* the exception that left harvest
    last_region,         \* result of the latest direct Region construction
    harvest_config,      \* the argument of harvest: a mapping or a YAML file
    previous             \* the outcome of an earlier harvest the caller kept

vars ==
    <<pc, gen, now, MAX_CYCLE_DATETIME, DEFAULT_REGIONS, files, harvest_dict,
      config_calls, stats, regions, metrics_meta, elevation_unit, output_format,
      checked, midx, open_files, opened, harvested_data, result, error, last_region,
      harvest_config, previous>>

\* the variables of a HarvestConfig under construction
config_vars == <<stats, regions, metrics_meta, elevation_unit, output_format, checked>>

\* the variables of get_data
data_vars == <<midx, open_files, opened, harvested_data>>

\* the variables one harvest leaves alone
world_vars ==
    <<gen, now, MAX_CYCLE_DATETIME, files, harvest_dict, last_region, harvest_config,
      previous>>

NoError == [exc |-> "", at |-> "", msg |-> ""]
NoResult == [kind |-> "none", columns |-> <<>>, rows |-> <<>>]
NoDict == [k \in {} |-> ""]
NoFiles == [p \in {} |-> ""]
NoRegion ==
    [gen |-> 0, name |-> PyNone, min_lat |-> PyNone, max_lat |-> PyNone,
     result |-> Raise("")]

NoConfig == [kind |-> "none", cfg |-> NoDict]
NoPrevious ==
    [gen |-> 0, config |-> NoConfig, files |-> NoFiles, result |-> NoResult,
     error |-> NoError, since |-> 0]

\* harvests counted after the one the caller kept
MaxSince == 2

\* when the module may have been imported
ImportTimes == {48}

Init ==
    /\ pc = "idle"
    /\ gen = 2
    /\ MAX_CYCLE_DATETIME \in ImportTimes
    /\ now = MAX_CYCLE_DATETIME
    /\ DEFAULT_REGIONS = <<DEFAULT_REGIONS_GEN1, DEFAULT_REGIONS_GEN2>>
    /\ files = NoFiles
    /\ harvest_dict = NoDict
    /\ config_calls = 0
    /\ stats = <<>>
    /\ regions = <<>>
    /\ metrics_meta = <<>>
    /\ elevation_unit = PyStr("")
    /\ output_format = ""
    /\ checked = <<>>
    /\ midx = 0
    /\ open_files = {}
    /\ opened = <<>>
    /\ harvested_data = <<>>
    /\ result = NoResult
    /\ error = NoError
    /\ last_region = NoRegion
    /\ harvest_config = NoConfig
    /\ previous = NoPrevious

\* an exception leaves harvest
Fail(exc, at, msg) ==
    /\ pc' = "failed"
    /\ error' = [exc |-> exc, at |-> at, msg |-> msg]

(***************************************************************************)
(* harvest(harvest_config), step by step.                                  *)
(***************************************************************************)

\* harvest is called with a configuration mapping; the files are those of
\* the input.
Harvest(w) ==
    /\ pc' = "lookup"
    /\ gen' = w.gen
    /\ now' = MAX_CYCLE_DATETIME + w.delay
    /\ files' = FilesOf(w)
    /\ harvest_config' = [kind |-> "dict", cfg |-> w.cfg]
    /\ harvest_dict' = w.cfg
    /\ UNCHANGED <<MAX_CYCLE_DATETIME, DEFAULT_REGIONS, config_calls, config_vars,
                   data_vars, result, error, last_region, previous>>

\* The registry lookup.  Both dict.get calls return None for a missing key
\* and raise nothing, so the except clause with its KeyError is never
\* entered; the name of a harvester that is None is then read.
Lookup ==
    /\ pc = "lookup"
    /\ IF HasKey(harvest_dict, "harvester_name")
          /\ harvest_dict["harvester_name"] \in harvester_registry(gen)
       THEN /\ pc' = "set_stats"
            /\ config_calls' = config_calls + 1
            /\ error' = error
       ELSE /\ Fail("AttributeError", "harvest",
                    "'NoneType' object has no attribute 'name'")
            /\ config_calls' = config_calls
    /\ UNCHANGED <<world_vars, DEFAULT_REGIONS, config_vars, data_vars, result>>

\* HarvestConfig.__post_init__: self.set_stats()
SetStats ==
    /\ pc = "set_stats"
    /\ LET r == set_stats(harvest_dict)
       IN  /\ stats' = r.val
           /\ IF r.ok
              THEN /\ pc' = "set_regions"
                   /\ error' = error
              ELSE Fail(r.exc, "set_stats", "'stats' key missing, must be one of")
    /\ UNCHANGED <<world_vars, DEFAULT_REGIONS, config_calls, regions, metrics_meta,
                   elevation_unit, output_format, checked, data_vars, result>>

\* HarvestConfig.__post_init__: self.set_regions()
SetRegions ==
    /\ pc = "set_regions"
    /\ LET r == set_regions(gen, harvest_dict, DEFAULT_REGIONS[gen])
       IN  /\ DEFAULT_REGIONS' = [DEFAULT_REGIONS EXCEPT ![gen] = r.shared]
           /\ regions' = r.val
           /\ IF r.ok
              THEN /\ pc' = "set_metrics_meta"
                   /\ error' = error
              ELSE Fail(r.exc, "set_regions", "Problem parsing regions")
    /\ UNCHANGED <<world_vars, config_calls, stats, metrics_meta, elevation_unit,
                   output_format, checked, data_vars, result>>

\* HarvestConfig.__post_init__: self.set_metrics_meta()
SetMetricsMeta ==
    /\ pc = "set_metrics_meta"
    /\ LET r == set_metrics_meta(gen, harvest_dict, files, MAX_CYCLE_DATETIME)
       IN  /\ checked' = checked \o r.checked
           /\ metrics_meta' = r.val
           /\ IF r.ok
              THEN /\ pc' = IF gen = 1 THEN "get_data" ELSE "set_elevation_unit"
                   /\ error' = error
              ELSE Fail(r.exc, "set_metrics_meta",
                        IF r.exc = "TypeError" THEN "'NoneType' object is not iterable"
                        ELSE "Problem creating metrics_meta dataclass")
    /\ UNCHANGED <<world_vars, DEFAULT_REGIONS, config_calls, stats, regions,
                   elevation_unit, output_format, data_vars, result>>

\* HarvestConfig.__post_init__ of the second generation:
\* self.set_elevation_unit()
SetElevationUnit ==
    /\ pc = "set_elevation_unit"
    /\ elevation_unit' = set_elevation_unit(harvest_dict)
    /\ pc' = "set_output_format"
    /\ UNCHANGED <<world_vars, DEFAULT_REGIONS, config_calls, stats, regions,
                   metrics_meta, output_format, checked, data_vars, result, error>>

\* HarvestConfig.__post_init__ of the second generation:
\* self.set_output_format()
SetOutputFormat ==
    /\ pc = "set_output_format"
    /\ output_format' = set_output_format(harvest_dict)
    /\ pc' = "get_data"
    /\ UNCHANGED <<world_vars, DEFAULT_REGIONS, config_calls, stats, regions,
                   metrics_meta, elevation_unit, checked, data_vars, result, error>>

\* whether netCDF4.Dataset(filename) opens the file
CanOpen(fs, filename) == filename \in DOMAIN fs /\ fs[filename].netcdf

\* get_data: ncfile = netCDF4.Dataset(metric.filename) for the next metric.
\* The call stands before the try statement: what it raises leaves get_data
\* as it is, and no handle exists then.
OpenFile ==
    /\ pc = "get_data"
    /\ midx < Len(metrics_meta)
    /\ midx' = midx + 1
    /\ IF CanOpen(files, metrics_meta[midx + 1].filename)
       THEN /\ open_files' = open_files \cup {midx + 1}
            /\ opened' = Append(opened, metrics_meta[midx + 1].filename)
            /\ pc' = "parse"
            /\ error' = error
       ELSE /\ Fail("OSError", "get_data", "NetCDF: Unknown file format")
            /\ UNCHANGED <<open_files, opened>>
    /\ UNCHANGED <<world_vars, DEFAULT_REGIONS, config_calls, config_vars,
                   harvested_data, result>>

\* get_data: the try block.  Its except clause re-raises as ValueError; the
\* statement ncfile.close() follows the try statement and is not reached
\* then.  The records appended before the exception stay in harvested_data.
ReadFile ==
    /\ pc = "parse"
    /\ LET metric == metrics_meta[midx]
           r == ParseFile(gen, metric, regions, stats, elevation_unit,
                          Variables(files[metric.filename]), harvested_data)
       IN  /\ harvested_data' = r.val
           /\ IF r.ok
              THEN /\ pc' = "close"
                   /\ error' = error
              ELSE Fail("ValueError", "get_data", "problem parsing netcdf file")
    /\ UNCHANGED <<world_vars, DEFAULT_REGIONS, config_calls, config_vars, midx,
                   open_files, opened, result>>

\* A get_data that goes on to the next metric without closing the file:
\* the variant C20 is tested against.
CloseFile_Deferred ==
    /\ pc = "close"
    /\ pc' = "get_data"
    /\ UNCHANGED <<world_vars, DEFAULT_REGIONS, config_calls, config_vars, midx,
                   open_files, opened, harvested_data, result, error>>

\* get_data: ncfile.close()
CloseFile ==
    /\ pc = "close"
    /\ open_files' = open_files \ {midx}
    /\ pc' = "get_data"
    /\ UNCHANGED <<world_vars, DEFAULT_REGIONS, config_calls, config_vars, midx,
                   opened, harvested_data, result, error>>

\* get_data returns: the data frame if the second generation's
\* configuration asks for it, the list otherwise
ReturnData ==
    /\ pc = "get_data"
    /\ midx = Len(metrics_meta)
    /\ result' = IF gen = 2 /\ output_format = PANDAS_DATAFRAME
                 THEN get_data_pandas_df(harvested_data)
                 ELSE TuplesList(harvested_data)
    /\ pc' = "done"
    /\ UNCHANGED <<world_vars, DEFAULT_REGIONS, config_calls, config_vars, data_vars,
                   error>>

\* The caller has the result or the exception; the configuration, the
\* harvester and their handles are dropped with the call.
Finish ==
    /\ pc \in {"done", "failed"}
    /\ pc' = "idle"
    /\ now' = MAX_CYCLE_DATETIME
    /\ files' = NoFiles
    /\ harvest_dict' = NoDict
    /\ config_calls' = 0
    /\ stats' = <<>>
    /\ regions' = <<>>
    /\ metrics_meta' = <<>>
    /\ elevation_unit' = PyStr("")
    /\ output_format' = ""
    /\ checked' = <<>>
    /\ midx' = 0
    /\ open_files' = {}
    /\ opened' = <<>>
    /\ harvested_data' = <<>>
    /\ result' = NoResult
    /\ error' = NoError
    /\ gen' = 2
    /\ harvest_config' = NoConfig
    /\ previous' = IF previous = NoPrevious \/ previous.since >= MaxSince THEN previous
                   ELSE [previous EXCEPT !.since = @ + 1]
    /\ UNCHANGED <<MAX_CYCLE_DATETIME, DEFAULT_REGIONS, last_region>>

Next ==
    \/ (pc = "idle" /\ \E w \in Worlds : Harvest(w))
    \/ Lookup
    \/ SetStats
    \/ SetRegions
    \/ SetMetricsMeta
    \/ SetElevationUnit
    \/ SetOutputFormat
    \/ OpenFile
    \/ ReadFile
    \/ CloseFile
    \/ ReturnData
    \/ Finish

Spec == Init /\ [][Next]_vars

(***************************************************************************)
(* Region constructed directly, as the test module does.                   *)
(***************************************************************************)
\* latitudes tried, each as int and as float, and values that are no number
LatValues == {-91, -90, -20, 0, 20, 90, 91}

BoundInputs ==
    {PyFloat(x) : x \in LatValues} \cup {PyInt(x) : x \in LatValues}
    \cup {PyList, PyDict, PyNone}

NameInputs == {PyStr("test_region"), PyStr(""), PyInt(5), PyList, PyDict}

\* Region(name, min_lat, max_lat) of generation g
ConstructRegion(g, name, min_lat, max_lat) ==
    /\ last_region = NoRegion
    /\ last_region' = [gen |-> g, name |-> name, min_lat |-> min_lat,
                       max_lat |-> max_lat,
                       result |-> Region(g, name, min_lat, max_lat)]
    /\ UNCHANGED <<pc, gen, now, MAX_CYCLE_DATETIME, DEFAULT_REGIONS, files,
                   harvest_dict, config_calls, config_vars, data_vars, result, error,
                   harvest_config, previous>>

\* the caller drops the Region, or the exception
DropRegion ==
    /\ last_region # NoRegion
    /\ last_region' = NoRegion
    /\ UNCHANGED <<pc, gen, now, MAX_CYCLE_DATETIME, DEFAULT_REGIONS, files,
                   harvest_dict, config_calls, config_vars, data_vars, result, error,
                   harvest_config, previous>>

NextRegion ==
    \/ \E g \in {1, 2}, name \in NameInputs, min_lat \in BoundInputs,
          max_lat \in BoundInputs :
           ConstructRegion(g, name, min_lat, max_lat)
    \/ DropRegion

SpecRegion == Init /\ [][NextRegion]_vars

(***************************************************************************)
(* A configuration supplied as a YAML file.  The test module writes the    *)
(* mapping with yaml.dump; harvest reads it back with YamlLoader, that is  *)
(* yaml.load_all under the SafeLoader.  A scalar of the document is its    *)
(* text and whether it is quoted.                                          *)
(***************************************************************************)
ScalarNode(style, text) == [style |-> style, text |-> text]

Digits == {"0", "1", "2", "3", "4", "5", "6", "7", "8", "9"}

\* text the resolver reads as an integer
IsIntText(s) ==
    LET body == IF Len(s) > 0 /\ SubSeq(s, 1, 1) = "-" THEN SubSeq(s, 2, Len(s)) ELSE s
    IN  /\ Len(body) > 0
        /\ \A i \in 1..Len(body) : SubSeq(body, i, i) \in Digits

\* text the resolver reads as a float: digits, a point, a zero
IsFloatText(s) ==
    /\ Len(s) > 2
    /\ SubSeq(s, Len(s) - 1, Len(s)) = ".0"
    /\ IsIntText(SubSeq(s, 1, Len(s) - 2))

TimestampTail == ":00:00"

\* text the resolver reads as a timestamp
IsTimestampText(s) ==
    /\ Len(s) > Len(TimestampTail)
    /\ SubSeq(s, Len(s) - Len(TimestampTail) + 1, Len(s)) = TimestampTail
    /\ IsIntText(SubSeq(s, 1, Len(s) - Len(TimestampTail)))

\* text the resolver reads as null, and as a bool
NullTexts == {"~", "null", "Null", "NULL", ""}
BoolTexts ==
    {"yes", "Yes", "YES", "no", "No", "NO", "true", "True", "TRUE",
     "false", "False", "FALSE", "on", "On", "ON", "off", "Off", "OFF"}

PyBool(b) == [ty |-> "bool", s |-> "", v |-> IF b THEN 1 ELSE 0]

\* characters no plain scalar may begin with (the backquote, which no
\* string here can hold, is the one left out)
Indicators ==
    {"#", ",", "[", "]", "{", "}", "&", "*", "!", "|", ">", "'", "\"", "%", "@"}

\* the emitter's analysis of a scalar: whether its text may not be written
\* plain in a block mapping or sequence
NotPlain(s) ==
    LET ch(i) == SubSeq(s, i, i)
        followed_by_space(i) == i = Len(s) \/ ch(i + 1) = " "
    IN  \/ Len(s) = 0
        \/ ch(1) \in Indicators
        \/ ch(1) \in {"-", "?", ":"} /\ followed_by_space(1)
        \/ ch(1) = " " \/ ch(Len(s)) = " "
        \/ \E i \in 1..Len(s) : ch(i) = ":" /\ followed_by_space(i)
        \/ \E i \in 2..Len(s) : ch(i) = "#" /\ ch(i - 1) = " "

\* the integers a configuration may spell out
IntTexts == -100..100

\* int(text)
ParseInt(s) == CHOOSE n \in IntTexts : ToString(n) = s

\* yaml.dump of a scalar: a string is written in quotes when it would be
\* read back as something else, or when its text may not stand plain
YamlScalar(x) ==
    IF x.ty = "str"
    THEN IF IsIntText(x.s) \/ IsFloatText(x.s) \/ IsTimestampText(x.s)
            \/ x.s \in NullTexts \/ x.s \in BoolTexts \/ NotPlain(x.s)
         THEN ScalarNode("quoted", x.s)
         ELSE ScalarNode("plain", x.s)
    ELSE IF x.ty = "int" THEN ScalarNode("plain", ToString(x.v))
    ELSE IF x.ty = "float" THEN ScalarNode("plain", ToString(x.v) \o ".0")
    ELSE IF x.ty = "datetime" THEN ScalarNode("plain", ToString(x.v) \o TimestampTail)
    ELSE ScalarNode("plain", "null")

\* A loader that knows no timestamps and reads them as strings: the variant
\* C13 is tested against.
YamlResolve_NoTimestamp(node) ==
    IF node.style = "quoted" THEN PyStr(node.text)
    ELSE IF IsIntText(node.text) THEN PyInt(ParseInt(node.text))
    ELSE IF IsFloatText(node.text)
         THEN PyFloat(ParseInt(SubSeq(node.text, 1, Len(node.text) - 2)))
    ELSE IF node.text \in NullTexts THEN PyNone
    ELSE IF node.text \in BoolTexts
         THEN PyBool(node.text \in {"yes", "Yes", "YES", "true", "True", "TRUE",
                                   "on", "On", "ON"})
    ELSE PyStr(node.text)

\* the SafeLoader's implicit resolver: the Python value of a scalar
YamlResolve(node) ==
    IF node.style = "quoted" THEN PyStr(node.text)
    ELSE IF IsIntText(node.text) THEN PyInt(ParseInt(node.text))
    ELSE IF IsFloatText(node.text)
         THEN PyFloat(ParseInt(SubSeq(node.text, 1, Len(node.text) - 2)))
    ELSE IF IsTimestampText(node.text)
         THEN PyDatetime(ParseInt(SubSeq(node.text, 1,
                                         Len(node.text) - Len(TimestampTail))))
    ELSE IF node.text \in NullTexts THEN PyNone
    ELSE IF node.text \in BoolTexts
         THEN PyBool(node.text \in {"yes", "Yes", "YES", "true", "True", "TRUE",
                                   "on", "On", "ON"})
    ELSE PyStr(node.text)

\* the values of these keys are kept as bare strings when they are str
StrNode(s) == YamlScalar(PyStr(s))
StrOf(node) == LET x == YamlResolve(node) IN IF x.ty = "str" THEN x.s ELSE x

\* the region names in the order sorted() gives them
SortedNames == <<"equatorial", "global", "north_hemis", "south_hemis", "tropics">>

RECURSIVE InsertByName(_, _)
\* entries, sorted by name, with e put in its place
InsertByName(e, sorted) ==
    LET rank(x) == CHOOSE i \in 1..Len(SortedNames) : SortedNames[i] = x.name.s
    IN  IF sorted = <<>> THEN <<e>>
        ELSE IF rank(e) < rank(Head(sorted)) THEN <<e>> \o sorted
        ELSE <<Head(sorted)>> \o InsertByName(e, Tail(sorted))

RECURSIVE SortByName(_)
SortByName(entries) ==
    IF entries = <<>> THEN <<>>
    ELSE InsertByName(Head(entries), SortByName(Tail(entries)))

\* yaml.dump writes the keys of a mapping sorted; keys that cannot be
\* compared with each other are left in insertion order
DumpRegions(entries) ==
    LET ordered == IF \A i \in 1..Len(entries) :
                         /\ entries[i].name.ty = "str"
                         /\ entries[i].name.s \in SeqToSet(SortedNames)
                   THEN SortByName(entries) ELSE entries
    IN  [i \in 1..Len(ordered) |->
            [name |-> YamlScalar(ordered[i].name),
             lat_min |-> YamlScalar(ordered[i].lat_min),
             lat_max |-> YamlScalar(ordered[i].lat_max)]]

\* yaml.dump(config, file): the document of a configuration mapping
YamlDump(cfg) ==
    [k \in DOMAIN cfg |->
        IF k \in {"stats", "metrics"}
        THEN [i \in 1..Len(cfg[k]) |-> StrNode(cfg[k][i])]
        ELSE IF k = "regions" THEN DumpRegions(cfg[k])
        ELSE IF k = "file_meta"
        THEN [j \in DOMAIN cfg[k] |->
                 IF j = "cycletime" THEN YamlScalar(cfg[k][j]) ELSE StrNode(cfg[k][j])]
        ELSE StrNode(cfg[k])]

\* YamlLoader(yaml_file).load()[0]: the mapping of the document, its keys in
\* the order of the file
YamlLoad(doc) ==
    [k \in DOMAIN doc |->
        IF k \in {"stats", "metrics"}
        THEN [i \in 1..Len(doc[k]) |-> StrOf(doc[k][i])]
        ELSE IF k = "regions"
        THEN [i \in 1..Len(doc[k]) |->
                 [name |-> YamlResolve(doc[k][i].name),
                  lat_min |-> YamlResolve(doc[k][i].lat_min),
                  lat_max |-> YamlResolve(doc[k][i].lat_max)]]
        ELSE IF k = "file_meta"
        THEN [j \in DOMAIN doc[k] |->
                 IF j = "cycletime" THEN YamlResolve(doc[k][j]) ELSE StrOf(doc[k][j])]
        ELSE StrOf(doc[k])]

(***************************************************************************)
(* Harvests repeated by one caller, who keeps the outcome of one of them.  *)
(***************************************************************************)
\* the regions of the well-formed configuration, named in another order
SwappedRegions == <<BaseRegions[2], BaseRegions[1]>>

\* the inputs harvested again and again
RepeatWorlds ==
    UNION {
        {w,
         WithoutCfg(w, "regions"),
         WithCfg(w, "regions", SwappedRegions),
         WithCfg(w, "stats", <<"rmsd", "bogus">>),
         WithCfg(w, "metrics", <<"uvwind">>),
         [w EXCEPT !.kinds["uvwind"] = FileKind("missing", MaxLevels, "")],
         [w EXCEPT !.kinds["temperature"] = FileKind("short_var", MaxLevels, "bias_global")],
         [w EXCEPT !.kinds["uvwind"] = FileKind("good", 1, "")]}
        : w \in {BaseWorld(1), BaseWorld(2),
                 WithCfg(BaseWorld(2), "output_format", PANDAS_DATAFRAME)}}

\* harvest is called with the path of a YAML file written from the mapping
HarvestFile(w) ==
    /\ pc' = "lookup"
    /\ gen' = w.gen
    /\ now' = MAX_CYCLE_DATETIME + w.delay
    /\ files' = FilesOf(w)
    /\ harvest_config' = [kind |-> "yaml", cfg |-> w.cfg]
    /\ harvest_dict' = YamlLoad(YamlDump(w.cfg))
    /\ UNCHANGED <<MAX_CYCLE_DATETIME, DEFAULT_REGIONS, config_calls, config_vars,
                   data_vars, result, error, last_region, previous>>

\* the caller keeps what harvest returned or raised
Remember ==
    /\ pc \in {"done", "failed"}
    /\ previous = NoPrevious
    /\ previous' = [gen |-> gen, config |-> harvest_config, files |-> files,
                    result |-> result, error |-> error, since |-> 0]
    /\ UNCHANGED <<pc, gen, now, MAX_CYCLE_DATETIME, DEFAULT_REGIONS, files,
                   harvest_dict, config_calls, config_vars, data_vars, result, error,
                   last_region, harvest_config>>

NextRepeat ==
    \/ (pc = "idle" /\ \E w \in RepeatWorlds : Harvest(w))
    \/ (pc = "idle" /\ \E w \in RepeatWorlds : HarvestFile(w))
    \/ Lookup
    \/ SetStats
    \/ SetRegions
    \/ SetMetricsMeta
    \/ SetElevationUnit
    \/ SetOutputFormat
    \/ OpenFile
    \/ ReadFile
    \/ CloseFile
    \/ ReturnData
    \/ Remember
    \/ Finish

SpecRepeat == Init /\ [][NextRepeat]_vars

(***************************************************************************)
(* Vocabulary of the properties.                                           *)
(***************************************************************************)
\* the harvest has ended and the caller holds its outcome
Ended == pc \in {"done", "failed"}

\* the HarvestConfig of the running harvest has been built
ConfigBuilt ==
    \/ pc \in {"get_data", "parse", "close", "done"}
    \/ pc = "failed" /\ error.at = "get_data"

\* the running harvest has got past set_regions
RegionsSet ==
    \/ ConfigBuilt
    \/ pc \in {"set_metrics_meta", "set_elevation_unit", "set_output_format"}
    \/ pc = "failed" /\ error.at = "set_metrics_meta"

\* the metrics list of the configuration handed to harvest (none: empty)
ConfiguredMetrics ==
    IF HasKey(harvest_dict, "metrics") THEN harvest_dict["metrics"] ELSE <<>>

\* the cycle time the configuration names, when it names one
CycleDefined == PathDefined(gen, FileMetaOf(harvest_dict))

ConfiguredCycle ==
    IF gen = 1
    THEN Strptime(harvest_dict["file_meta"]["cycle"],
                  harvest_dict["file_meta"]["cycletime_str"]).val
    ELSE harvest_dict["file_meta"]["cycletime"].v

\* the path of the k-th configured metric
ResolvedPath(k) == Filename(gen, ConfiguredMetrics[k], FileMetaOf(harvest_dict))

\* a path the Path/Validity Checker must refuse
BadPath(path) ==
    \/ HasInvalidChar(path)
    \/ path \notin DOMAIN files
    \/ ~files[path].is_file
    \/ files[path].st_size = 0
    \/ ~files[path].readable

\* the arrays of the file of the m-th metric location
ArraysOf(m) == Variables(files[metrics_meta[m].filename])

\* the name of the elevation array the running generation reads
ElevationName == IF gen = 1 THEN "plevs" ELSE elevation_unit.s

(***************************************************************************)
(* C1  Every metric file that get_data opened is closed by the time the    *)
(*     extraction has returned or failed, in particular when reading a     *)
(*     variable failed inside the region/statistic loop.                   *)
(*     The code closes the file after the try statement, not in a finally  *)
(*     clause: this statement is violated.                                 *)
(***************************************************************************)
C1_ClosedWhenEnded == Ended => open_files = {}

(***************************************************************************)
(* C2  A successful harvest over M metrics, R regions and S statistics     *)
(*     whose arrays all have the length L of the elevation arrays returns  *)
(*     M*R*S*L records, metric-major, then region, then statistic, then    *)
(*     level; the record at (m, r, s, i) carries the names of m, r and s,  *)
(*     the i-th elevation and the i-th value of '{s}_{r}' of m's file and, *)
(*     in the second generation, the time cycletime + 6 h and the name     *)
(*     'innov_stats_' + m + '_' + s.                                       *)
(***************************************************************************)
\* every array the harvest reads in any of its files has length n
AllArraysOfLength(n) ==
    \A m \in 1..Len(metrics_meta) :
        /\ Len(ArraysOf(m)[ElevationName]) = n
        /\ \A r \in 1..Len(regions), k \in 1..Len(stats) :
               Len(ArraysOf(m)[stats[k] \o "_" \o PyText(regions[r].name)]) = n

\* the record expected at (m, r, k, i) agrees with the one returned
RecordAsClaimed(row, m, r, k, i) ==
    /\ row.metric = ConfiguredMetrics[m]
    /\ row.region_name = regions[r].name
    /\ row.stat = harvest_dict["stats"][k]
    /\ row.elevation = ArraysOf(m)[ElevationName][i]
    /\ row.value =
          ArraysOf(m)[harvest_dict["stats"][k] \o "_" \o PyText(regions[r].name)][i]
    /\ gen = 2 =>
          /\ row.cycletime = harvest_dict["file_meta"]["cycletime"].v + 6
          /\ row.name = "innov_stats_" \o ConfiguredMetrics[m] \o "_"
                           \o harvest_dict["stats"][k]

C2_RecordsAsClaimed ==
    pc = "done" =>
        LET M == Len(ConfiguredMetrics)
            R == Len(regions)
            S == Len(harvest_dict["stats"])
        IN  \A L \in 0..(MaxLevels + 1) :
                AllArraysOfLength(L) =>
                    /\ Len(result.rows) = M * R * S * L
                    /\ \A m \in 1..M, r \in 1..R, k \in 1..S, i \in 1..L :
                          RecordAsClaimed(
                              result.rows[(((m - 1) * R + (r - 1)) * S + (k - 1)) * L + i],
                              m, r, k, i)

\* two metrics, two regions, two statistics and two levels: 16 records
C2_Witness ==
    /\ pc = "done"
    /\ gen = 2
    /\ Len(ConfiguredMetrics) = 2 /\ ConfiguredMetrics[1] # ConfiguredMetrics[2]
    /\ Len(regions) = 2
    /\ Len(stats) = 2 /\ stats[1] # stats[2]
    /\ AllArraysOfLength(2)
    /\ Len(result.rows) = 16

(***************************************************************************)
(* C3  When get_data opens its first file, the Path/Validity Checker has   *)
(*     been run on the resolved path of every configured metric; and if    *)
(*     the resolved file of any metric is missing, empty, unreadable or    *)
(*     has a disallowed character, the harvest opens no file, produces no  *)
(*     record and, once configuration construction has begun, fails in it. *)
(***************************************************************************)
AnyBadPath ==
    /\ CycleDefined
    /\ \E k \in 1..Len(ConfiguredMetrics) : BadPath(ResolvedPath(k))

C3_CheckedBeforeOpened ==
    /\ opened # <<>> =>
          \A k \in 1..Len(ConfiguredMetrics) : ResolvedPath(k) \in SeqToSet(checked)
    /\ AnyBadPath =>
          /\ opened = <<>>
          /\ harvested_data = <<>>
          /\ pc # "done"
          /\ (pc = "failed" /\ config_calls > 0) =>
                 error.at \in {"set_stats", "set_regions", "set_metrics_meta"}

\* the second of two metrics has a bad file, and the harvest failed in
\* set_metrics_meta after the first one passed the checker
C3_Witness ==
    /\ pc = "failed"
    /\ error.at = "set_metrics_meta"
    /\ Len(ConfiguredMetrics) = 2
    /\ AnyBadPath
    /\ ~BadPath(ResolvedPath(1))
    /\ BadPath(ResolvedPath(2))
    /\ Len(checked) = 2
    /\ opened = <<>>

(***************************************************************************)
(* C4  A harvest whose harvester_name is absent or names no registered     *)
(*     harvester fails with the KeyError 'could not find harvester from    *)
(*     config' of the lookup step, before any configuration constructor    *)
(*     runs and before any file is checked or opened.                      *)
(*     The lookup uses dict.get, which raises nothing: the failure is the  *)
(*     AttributeError of reading harvester.name.  This statement is        *)
(*     violated.                                                           *)
(***************************************************************************)
UnknownHarvester ==
    \/ ~HasKey(harvest_dict, "harvester_name")
    \/ harvest_dict["harvester_name"] \notin harvester_registry(gen)

C4_UnknownHarvesterKeyError ==
    (Ended /\ UnknownHarvester) =>
        /\ pc = "failed"
        /\ error.exc = "KeyError"
        /\ config_calls = 0
        /\ checked = <<>>
        /\ opened = <<>>

(***************************************************************************)
(* C5  In both naming schemes, no metric location is resolved for a cycle  *)
(*     timestamp earlier than 1988-01-01 or later than the current time,   *)
(*     even when the file at the derived path exists, is non-empty and is  *)
(*     readable.                                                           *)
(*     The first generation compares the timestamp with nothing: this      *)
(*     statement is violated.                                              *)
(***************************************************************************)
C5_CycleOutsideWindowRejected ==
    (CycleDefined /\ (ConfiguredCycle < 0 \/ ConfiguredCycle > now)) =>
        metrics_meta = <<>>

(***************************************************************************)
(* C6  Whenever the stats list holds an entry outside {bias, count, rmsd}, *)
(*     at any position and whatever the other keys hold, HarvestConfig     *)
(*     construction fails in set_stats with KeyError: no configuration is  *)
(*     produced.  The object under construction holds the list as it was   *)
(*     given when the exception leaves; no later phase has run on it, no   *)
(*     path was checked, no file opened and nothing is returned.           *)
(***************************************************************************)
HasUnknownStat ==
    /\ HasKey(harvest_dict, "stats")
    /\ \E i \in 1..Len(harvest_dict["stats"]) :
           harvest_dict["stats"][i] \notin {"bias", "count", "rmsd"}

C6_UnknownStatRejected ==
    HasUnknownStat =>
        /\ ~RegionsSet
        /\ pc \notin {"set_regions", "done"}
        /\ regions = <<>> /\ metrics_meta = <<>> /\ checked = <<>>
        /\ opened = <<>> /\ harvested_data = <<>>
        /\ result = NoResult
        /\ (pc = "failed" /\ config_calls > 0) =>
               /\ error.at = "set_stats" /\ error.exc = "KeyError"
               /\ stats = harvest_dict["stats"]
        /\ pc \in {"lookup", "set_stats"} => stats = <<>>

\* the unknown entry follows a valid one, and construction has failed
C6_Witness ==
    /\ pc = "failed"
    /\ error.at = "set_stats"
    /\ HasUnknownStat
    /\ Len(harvest_dict["stats"]) = 2
    /\ harvest_dict["stats"][1] = "bias"
    /\ harvest_dict["stats"][2] = "bogus"
    /\ stats = <<"bias", "bogus">>

(***************************************************************************)
(* C7  With the regions key absent the configuration's region list is the  *)
(*     five canonical regions, in order, in every harvest of any sequence  *)
(*     of harvests: the shared default list never changes.                 *)
(***************************************************************************)
CanonicalRegions ==
    << <<"equatorial", -5, 5>>, <<"global", -90, 90>>, <<"north_hemis", 20, 60>>,
       <<"tropics", -20, 20>>, <<"south_hemis", -60, -20>> >>

\* names and bounds of a list of Region objects
NamesAndBounds(rs) ==
    [i \in 1..Len(rs) |-> <<PyText(rs[i].name), rs[i].min_lat.v, rs[i].max_lat.v>>]

C7_DefaultRegions ==
    /\ \A g \in {1, 2} : NamesAndBounds(DEFAULT_REGIONS[g]) = CanonicalRegions
    /\ (RegionsSet /\ ~HasKey(harvest_dict, "regions")) =>
           NamesAndBounds(regions) = CanonicalRegions

\* a harvest without the regions key has returned records for the five
\* default regions
C7_Witness ==
    /\ pc = "done"
    /\ ~HasKey(harvest_dict, "regions")
    /\ Len(regions) = 5
    /\ Len(result.rows) > 0
    /\ \E i \in 1..Len(result.rows) : result.rows[i].region_name = PyStr("south_hemis")

(***************************************************************************)
(* C8  In both generations, constructing a Region fails whenever           *)
(*     min_lat > max_lat, or |min_lat| > 90, or |max_lat| > 90, or the     *)
(*     name is not a string.                                               *)
(*     The first generation does not look at the name: this statement is   *)
(*     violated.                                                           *)
(***************************************************************************)
C8_InvalidRegionRejected ==
    LET name == last_region.name
        lo == last_region.min_lat
        hi == last_region.max_lat
    IN  (/\ last_region.gen # 0
         /\ \/ name.ty # "str"
            \/ IsNumber(lo) /\ IsNumber(hi) /\ lo.v > hi.v
            \/ IsNumber(lo) /\ Abs(lo.v) > 90
            \/ IsNumber(hi) /\ Abs(hi.v) > 90)
        => ~last_region.result.ok

(***************************************************************************)
(* C9  For every second-generation Region(name, lo, hi), the boundary      *)
(*     stored on the Region and the region_bounds of every record emitted  *)
(*     for it is a closed ring of exactly 5 vertices, first equal to last, *)
(*     longitudes in {-180, 180}, latitudes in {lo, hi}.                   *)
(*     __post_init__ assembles the ring in a local name and never stores   *)
(*     it: the field stays the empty string.  This statement is violated.  *)
(***************************************************************************)
IsClosedRing(ring, lo, hi) ==
    /\ Len(ring) = 5
    /\ ring[1] = ring[5]
    /\ \A i \in 1..5 : ring[i][1] \in {-180, 180} /\ ring[i][2] \in {lo, hi}

C9_BoundaryIsRing ==
    gen = 2 =>
        /\ \A i \in 1..Len(regions) :
               IsClosedRing(regions[i].grid, regions[i].min_lat.v, regions[i].max_lat.v)
        /\ \A j \in 1..Len(harvested_data) :
               \E i \in 1..Len(regions) :
                   /\ regions[i].name = harvested_data[j].region_name
                   /\ IsClosedRing(harvested_data[j].region_bounds,
                                   regions[i].min_lat.v, regions[i].max_lat.v)

(***************************************************************************)
(* C10 Extraction fails whenever the length of a statistic array           *)
(*     '{stat}_{region}' differs from the length of the file's elevation   *)
(*     array, be it longer or shorter; no record sequence is returned.     *)
(*     A shorter array is read to its end without complaint: this          *)
(*     statement is violated.                                              *)
(***************************************************************************)
\* some array the harvest reads in the m-th file differs in length from
\* that file's elevation array
LengthMismatch(m) ==
    LET arrays == ArraysOf(m)
    IN  /\ ElevationName \in DOMAIN arrays
        /\ \E r \in 1..Len(regions), k \in 1..Len(stats) :
               LET var == stats[k] \o "_" \o PyText(regions[r].name)
               IN  /\ var \in DOMAIN arrays
                   /\ Len(arrays[var]) # Len(arrays[ElevationName])

C10_LengthMismatchRejected ==
    (ConfigBuilt /\ Ended
        /\ \E m \in 1..Len(metrics_meta) :
               CanOpen(files, metrics_meta[m].filename) /\ LengthMismatch(m))
    => (pc = "failed" /\ error.at = "get_data" /\ result = NoResult)

(***************************************************************************)
(* C11 A second-generation harvest whose required keys are valid and whose *)
(*     files are well formed completes and returns records when any of     *)
(*     the optional keys regions, elevation_unit, output_format is         *)
(*     omitted.                                                            *)
(*     set_elevation_unit stores config_data.get('elevation_unit'), None   *)
(*     for an absent key, and get_data reads ncfile.variables[None]: the   *)
(*     harvest fails.  This statement is violated.                         *)
(***************************************************************************)
\* the required keys are valid and every metric's file is well formed
RequiredKeysValid ==
    /\ \A k \in {"harvester_name", "file_meta", "stats", "metrics"} :
           HasKey(harvest_dict, k)
    /\ harvest_dict["harvester_name"] \in harvester_registry(gen)
    /\ Len(harvest_dict["stats"]) > 0
    /\ \A i \in 1..Len(harvest_dict["stats"]) :
           harvest_dict["stats"][i] \in {"bias", "count", "rmsd"}
    /\ Len(harvest_dict["metrics"]) > 0
    /\ CycleDefined
    /\ ConfiguredCycle >= 0 /\ ConfiguredCycle <= MAX_CYCLE_DATETIME
    /\ \A k \in 1..Len(ConfiguredMetrics) :
           /\ ~BadPath(ResolvedPath(k))
           /\ files[ResolvedPath(k)].netcdf
           /\ files[ResolvedPath(k)].content.kind.k = "good"
           /\ files[ResolvedPath(k)].content.kind.levels > 0

\* each optional key is omitted or holds a valid value
OptionalKeysOmittedOrValid ==
    /\ HasKey(harvest_dict, "regions") => harvest_dict["regions"] = BaseRegions
    /\ HasKey(harvest_dict, "elevation_unit") => harvest_dict["elevation_unit"] = "plevs"
    /\ HasKey(harvest_dict, "output_format") =>
           harvest_dict["output_format"] \in {"tuples_list", "pandas_dataframe"}

C11_OptionalKeysOmitted ==
    (gen = 2 /\ Ended /\ RequiredKeysValid /\ OptionalKeysOmittedOrValid) =>
        (pc = "done" /\ Len(result.rows) > 0)

(***************************************************************************)
(* C12 Every failure of HarvestConfig construction is raised by the        *)
(*     wrapper of the phase it occurred in, as a KeyError or a ValueError; *)
(*     a configuration without the metrics key fails with the KeyError     *)
(*     "'metrics' key missing" of the metric-location phase.               *)
(*     config_data.get('metrics') raises nothing, so that wrapper is never *)
(*     entered; the loop over None raises TypeError outside every try      *)
(*     block.  This statement is violated.                                 *)
(***************************************************************************)
\* HarvestConfig construction has failed
ConfigFailed ==
    pc = "failed" /\ error.at \in {"set_stats", "set_regions", "set_metrics_meta"}

C12_ConfigFailuresWrapped ==
    ConfigFailed =>
        /\ error.exc \in {"KeyError", "ValueError"}
        /\ (error.at = "set_metrics_meta" /\ ~HasKey(harvest_dict, "metrics")) =>
               error.exc = "KeyError"

(***************************************************************************)
(* C13 With unchanged files, two harvests of the same configuration        *)
(*     content end the same way, whatever was harvested in between.        *)
(*     Supplied in the same form both times, the two record sequences are  *)
(*     equal record by record.  Supplied once as a mapping and once as the *)
(*     YAML file written from it, they have equal length and hold the same *)
(*     records, each as often, but not always in the same order: the YAML  *)
(*     file lists the regions in sorted order, and the records follow the  *)
(*     order of the regions.                                               *)
(***************************************************************************)
\* how often a record occurs in a sequence
Occurrences(rows, r) == Cardinality({i \in 1..Len(rows) : rows[i] = r})

SameRecords(rows1, rows2) ==
    /\ Len(rows1) = Len(rows2)
    /\ \A r \in SeqToSet(rows1) \cup SeqToSet(rows2) :
           Occurrences(rows1, r) = Occurrences(rows2, r)

\* the harvest that has ended is one of the configuration and files of the
\* harvest whose outcome the caller kept
SameHarvestAgain ==
    /\ Ended
    /\ previous # NoPrevious
    /\ previous.gen = gen
    /\ previous.files = files
    /\ previous.config.cfg = harvest_config.cfg

C13_RepeatedHarvestSame ==
    SameHarvestAgain =>
        /\ previous.error.exc = error.exc
        /\ previous.error.at = error.at
        /\ previous.result.kind = result.kind
        /\ previous.result.columns = result.columns
        /\ SameRecords(previous.result.rows, result.rows)
        /\ previous.config.kind = harvest_config.kind =>
               previous.result = result

\* C13 as first stated: the two record sequences are equal field by field,
\* position by position, also when one configuration is the mapping and the
\* other the YAML file.  This statement is violated.
C13_SameSequenceAnyForm ==
    SameHarvestAgain =>
        /\ previous.error.exc = error.exc
        /\ previous.error.at = error.at
        /\ Len(previous.result.rows) = Len(result.rows)
        /\ \A i \in 1..Len(result.rows) : previous.result.rows[i] = result.rows[i]

\* kept from a mapping whose regions are not in sorted order, harvested
\* again from the YAML file after another harvest has finished in between
C13_Witness ==
    /\ SameHarvestAgain
    /\ pc = "done"
    /\ previous.since = 2
    /\ previous.config.kind = "dict"
    /\ harvest_config.kind = "yaml"
    /\ HasKey(harvest_config.cfg, "regions")
    /\ harvest_config.cfg["regions"] = SwappedRegions
    /\ harvest_dict["regions"] # SwappedRegions
    /\ Len(result.rows) > 0
    /\ previous.result.rows # result.rows

(***************************************************************************)
(* C14 The Path/Validity Checker fails on a path if and only if the path   *)
(*     holds a character outside [A-Za-z0-9._/-], or names no existing     *)
(*     regular file, or the file has size zero, or the process may not     *)
(*     read it; otherwise it returns, and in every case the file system is *)
(*     left as it was.  Stated of the step that runs the checker: of the   *)
(*     paths it hands over, the bad ones are exactly the last one of a     *)
(*     step that fails.                                                    *)
(***************************************************************************)
\* the paths handed to the checker by the step being taken
NewlyChecked == SubSeq(checked', Len(checked) + 1, Len(checked'))

CheckerStep ==
    pc = "set_metrics_meta" =>
        /\ files' = files
        /\ \A i \in 1..Len(NewlyChecked) :
               BadPath(NewlyChecked[i]) <=> (i = Len(NewlyChecked) /\ pc' = "failed")

C14_CheckerFailsIffBad == [][CheckerStep]_vars

\* the checker let the first path pass and refused the second, a file the
\* process may not read
C14_Witness ==
    /\ pc = "failed"
    /\ error.at = "set_metrics_meta"
    /\ Len(checked) = 2
    /\ ~BadPath(checked[1])
    /\ checked[2] \in DOMAIN files
    /\ files[checked[2]].is_file
    /\ files[checked[2]].st_size > 0
    /\ ~files[checked[2]].readable

(***************************************************************************)
(* C15 A second-generation harvest returns the table if and only if the    *)
(*     configuration's output_format is 'pandas_dataframe'; with the key   *)
(*     absent or holding another value it returns the flat record sequence *)
(*     unchanged.  The table has one row per record, in the same order,    *)
(*     and exactly the nine columns name, cycletime, region_name,          *)
(*     region_bounds, elevation, elevation_units, metric, stat, value.     *)
(***************************************************************************)
TableRequested ==
    /\ HasKey(harvest_dict, "output_format")
    /\ harvest_dict["output_format"] = "pandas_dataframe"

C15_TableIffRequested ==
    (gen = 2 /\ pc = "done") =>
        /\ result.kind = "DataFrame" <=> TableRequested
        /\ result.kind \in {"DataFrame", "list"}
        /\ result.rows = harvested_data
        /\ result.kind = "DataFrame" =>
               /\ result.columns =
                      <<"name", "cycletime", "region_name", "region_bounds", "elevation",
                        "elevation_units", "metric", "stat", "value">>
               /\ \A i \in 1..Len(result.rows) :
                      DOMAIN result.rows[i] = SeqToSet(result.columns)

\* a table of records was returned
C15_Witness ==
    /\ gen = 2
    /\ pc = "done"
    /\ TableRequested
    /\ result.kind = "DataFrame"
    /\ Len(result.rows) > 0

\* a value that is not the table's name gave the flat sequence
C15_WitnessOtherValue ==
    /\ gen = 2
    /\ pc = "done"
    /\ HasKey(harvest_dict, "output_format")
    /\ harvest_dict["output_format"] = "table"
    /\ result.kind = "list"
    /\ Len(result.rows) > 0

(***************************************************************************)
(* C16 Constructing a Region fails, and yields no Region, when the name is *)
(*     the empty string, even if both bounds are valid.                    *)
(*     Neither generation looks at the length of the name; the second      *)
(*     only asks isinstance(name, str).  This statement is violated.       *)
(***************************************************************************)
C16_EmptyNameRejected ==
    (last_region.gen # 0 /\ last_region.name = PyStr("")) => ~last_region.result.ok

(***************************************************************************)
(* C17 Constructing a second-generation Region directly raises ValueError  *)
(*     whenever either bound is not a float: integers, lists and mappings  *)
(*     are rejected even when ordered and in range; the same region with   *)
(*     float bounds that are ordered and in range is constructed.          *)
(***************************************************************************)
C17_FloatBoundsOnly ==
    LET name == last_region.name
        lo == last_region.min_lat
        hi == last_region.max_lat
    IN  last_region.gen = 2 =>
            /\ (lo.ty # "float" \/ hi.ty # "float") =>
                   (~last_region.result.ok /\ last_region.result.exc = "ValueError")
            /\ (/\ name.ty = "str"
                /\ lo.ty = "float" /\ hi.ty = "float"
                /\ lo.v <= hi.v /\ lo.v >= -90 /\ hi.v <= 90) =>
                   /\ last_region.result.ok
                   /\ last_region.result.val.name = name
                   /\ last_region.result.val.min_lat = lo
                   /\ last_region.result.val.max_lat = hi

\* integer bounds, ordered and in range, under a string name: rejected
C17_Witness ==
    /\ last_region.gen = 2
    /\ last_region.name = PyStr("test_region")
    /\ last_region.min_lat = PyInt(-20)
    /\ last_region.max_lat = PyInt(20)
    /\ ~last_region.result.ok
    /\ last_region.result.exc = "ValueError"

(***************************************************************************)
(* C18 HarvestConfig construction validates the statistics, then the       *)
(*     regions, then the metric locations: of a configuration faulty in    *)
(*     more than one phase the failure reported is that of the earliest    *)
(*     faulty phase, and no metric path is resolved or handed to the       *)
(*     Path/Validity Checker when the statistics or the regions are        *)
(*     invalid.                                                            *)
(***************************************************************************)
\* the stats key is missing or lists an unknown statistic
StatsFaulty == ~HasKey(harvest_dict, "stats") \/ HasUnknownStat

\* an entry of the regions mapping no Region can be made of
RegionEntryFaulty(e) ==
    \/ ~IsNumber(e.lat_min) \/ ~IsNumber(e.lat_max)
    \/ e.lat_min.v > e.lat_max.v
    \/ Abs(e.lat_min.v) > 90 \/ Abs(e.lat_max.v) > 90
    \/ gen = 2 /\ e.name.ty # "str"

RegionsFaulty ==
    /\ HasKey(harvest_dict, "regions")
    /\ \E i \in 1..Len(harvest_dict["regions"]) :
           RegionEntryFaulty(harvest_dict["regions"][i])

\* a HarvestConfig is being, or has been, constructed
ConfigStarted == config_calls > 0

C18_PhaseOrder ==
    ConfigStarted =>
        /\ ConfigFailed =>
               error.at = IF StatsFaulty THEN "set_stats"
                          ELSE IF RegionsFaulty THEN "set_regions"
                          ELSE "set_metrics_meta"
        /\ (StatsFaulty \/ RegionsFaulty) =>
               /\ checked = <<>>
               /\ metrics_meta = <<>>
               /\ pc \in {"set_stats", "set_regions", "failed"}
               /\ pc = "failed" => ConfigFailed
        /\ (StatsFaulty /\ pc # "set_stats") => (pc = "failed" /\ error.at = "set_stats")

\* faulty statistics and faulty regions: the statistics are reported
C18_Witness ==
    /\ ConfigFailed
    /\ StatsFaulty
    /\ RegionsFaulty
    /\ error.at = "set_stats"

\* valid statistics, faulty regions and a bad file: the regions are reported
C18_WitnessRegions ==
    /\ ConfigFailed
    /\ ~StatsFaulty
    /\ RegionsFaulty
    /\ AnyBadPath
    /\ error.at = "set_regions"
    /\ checked = <<>>

(***************************************************************************)
(* C19 In Scheme B the path resolved for cycle time t and metric n is the  *)
(*     path-format template rendered at t, followed by the filename-format *)
(*     template rendered at t + 6 hours with 'metric' replaced by n in the *)
(*     filename part only: the directory part is the rendered path-format  *)
(*     template, also when the directory text contains 'metric'.           *)
(*     The code replaces 'metric' in the joined path, directory included.  *)
(*     This statement is violated.                                         *)
(***************************************************************************)
\* the path as the claim builds it
SchemeBPath(t, n, path_format, filename_format) ==
    Strftime(t, path_format)
        \o Replace(Strftime(t + 6, filename_format), "metric", n)

C19_ReplaceInFilenameOnly ==
    gen = 2 =>
        \A k \in 1..Len(metrics_meta) :
            LET fm == harvest_dict["file_meta"]
                directory == Strftime(fm["cycletime"].v, fm["filepath_format_str"])
            IN  /\ metrics_meta[k].filename =
                       SchemeBPath(fm["cycletime"].v, metrics_meta[k].name,
                                   fm["filepath_format_str"], fm["filename_format_str"])
                /\ SubSeq(metrics_meta[k].filename, 1, Len(directory)) = directory

(***************************************************************************)
(* C20 At every point of an extraction over any number of metrics at most  *)
(*     one metric file is open: the file of metric k is closed before the  *)
(*     file of metric k+1 is opened, and when the extraction returns its   *)
(*     result no file it opened remains open.                              *)
(***************************************************************************)
C20_AtMostOneOpen ==
    /\ Cardinality(open_files) <= 1
    /\ open_files \subseteq {midx}
    /\ pc \in {"parse", "close"} => open_files = {midx}
    /\ pc \in {"get_data", "done"} => open_files = {}

\* the second of two metric files is open, the first has been closed
C20_Witness ==
    /\ pc = "parse"
    /\ midx = 2
    /\ Len(opened) = 2
    /\ opened[1] # opened[2]
    /\ open_files = {2}

====
